---- MODULE Spec2Model ----
(***************************************************************************)
(* Model of scripts/update-homebrew-formula.py: the release script that    *)
(* patches the placeholder version, download URLs and checksums of the     *)
(* Homebrew formula files.                                                  *)
(*                                                                         *)
(* Text is a sequence of tokens.  A token is an indivisible piece of text  *)
(* (one character, or a fixed run of characters that no pattern of the     *)
(* script can match part of), so str.replace, str.strip, str.lstrip,       *)
(* str.startswith and str.splitlines are computed token by token.          *)
(***************************************************************************)
EXTENDS Integers, Sequences, FiniteSets, TLC

VARIABLES
  disk,        \* the text of the file at each path, Missing when there is none
  orig,        \* disk when the script started
  formulas,    \* line 53: the list of formula paths
  version,     \* args.version
  sha_arm64,   \* args.sha256_arm64
  sha_x86_64,  \* args.sha256_x86_64
  calls,       \* the calls of update_formula made so far, in order
  status       \* "running", "exit0" (the script ended) or "exit1" (uncaught exception)

vars == <<disk, orig, formulas, version, sha_arm64, sha_x86_64, calls, status>>

(* ------------------------------ bounds -------------------------------- *)

\* Largest number of anchor blocks after the prefix of a generated formula file.
MaxBlocks == 2

\* Largest number of --formula options on the command line.
MaxFiles == 3

(* ------------------------------ tokens -------------------------------- *)

SP == " "
NL == "\n"
TAB == "\t"
QUOTE == "\""
Whitespace == {SP, NL, TAB}

\* 'version "0.0.0"' is VersionKw, Zero, QUOTE.
VersionKw == "version \""
Zero == "0.0.0"
LetterV == "v"
One == "1.2.3"

\* 'releases/download/v0.0.0/velar-darwin-arm64-v0.0.0.tar.gz'
ReleasesDownload == "releases/download/"
ArmArtifact == "/velar-darwin-arm64-"
IntelArtifact == "/velar-darwin-x86_64-"
TarGz == ".tar.gz"

Sha256Kw == "sha256"
UrlKw == "url \"https://github.com/ubcent/velar/"
EndKw == "end"
OldHex == "0000"
HexA == "aaaa"
HexB == "bbbb"

\* line 12: the placeholder version declaration
VersionPlaceholder == <<VersionKw, Zero, QUOTE>>

\* line 14: the placeholder arm64 download URL
ArmUrlPlaceholder == <<ReleasesDownload, LetterV, Zero, ArmArtifact, LetterV, Zero, TarGz>>

\* line 18: the placeholder x86_64 download URL
IntelUrlPlaceholder == <<ReleasesDownload, LetterV, Zero, IntelArtifact, LetterV, Zero, TarGz>>

\* lines 26 and 32: the anchor markers (one token each: 'on_arm do')
ArmMarker == <<"on_arm do">>
IntelMarker == <<"on_intel do">>

\* lines 28 and 34: 'sha256 '
ShaPrefix == <<Sha256Kw, SP>>

\* lines 27 and 33: range(i + 1, min(i + 8, len(lines)))
ArmWindow == 8
IntelWindow == 8

\* line 53: the default formula paths
DefaultFormulas == <<"homebrew-velar/Formula/velar.rb", "Formula/velar.rb">>

Paths == {DefaultFormulas[1], DefaultFormulas[2]}

\* A path with no file behind it.
Missing == <<"<no such file>">>

(* --------------------------- str operations --------------------------- *)

Min(a, b) == IF a < b THEN a ELSE b

\* old occurs in s at position i
match_at(s, i, old) ==
  /\ i + Len(old) - 1 <= Len(s)
  /\ \A k \in 1..Len(old) : s[i + k - 1] = old[k]

\* str.startswith
startswith(s, prefix) == match_at(s, 1, prefix)

RECURSIVE first_kept(_, _, _)
first_kept(s, i, chars) ==
  IF i <= Len(s) /\ s[i] \in chars THEN first_kept(s, i + 1, chars) ELSE i

RECURSIVE last_kept(_, _, _, _)
last_kept(s, j, low, chars) ==
  IF j >= low /\ s[j] \in chars THEN last_kept(s, j - 1, low, chars) ELSE j

\* str.lstrip(chars): every leading token that is in chars is removed
lstrip(s, chars) == SubSeq(s, first_kept(s, 1, chars), Len(s))

\* str.strip(): whitespace removed at both ends
strip(s) ==
  LET low == first_kept(s, 1, Whitespace)
  IN  SubSeq(s, low, last_kept(s, Len(s), low, Whitespace))

\* The least element of a non-empty set of positions
least(S) == CHOOSE x \in S : \A y \in S : x <= y

\* The first position >= i where old occurs in s, or 0
find(s, old, i) ==
  LET at == {j \in i..Len(s) : s[j] = old[1] /\ match_at(s, j, old)}
  IN  IF at = {} THEN 0 ELSE least(at)

\* str.replace(old, new): the leftmost non-overlapping occurrences, old # ''
RECURSIVE replace_from(_, _, _, _)
replace_from(s, i, old, new) ==
  LET j == find(s, old, i)
  IN  IF j = 0 THEN SubSeq(s, i, Len(s))
      ELSE SubSeq(s, i, j - 1) \o new \o replace_from(s, j + Len(old), old, new)

replace(s, old, new) == replace_from(s, 1, old, new)

\* str.splitlines(): no empty last line after a final line break
RECURSIVE split_from(_, _)
split_from(text, i) ==
  IF i > Len(text) THEN <<>>
  ELSE LET j == find(text, <<NL>>, i)
       IN  IF j = 0 THEN <<SubSeq(text, i, Len(text))>>
           ELSE <<SubSeq(text, i, j - 1)>> \o split_from(text, j + 1)

splitlines(text) == split_from(text, 1)

\* '\n'.join(lines)
RECURSIVE join(_)
join(lines) ==
  IF lines = <<>> THEN <<>>
  ELSE IF Len(lines) = 1 THEN lines[1]
  ELSE lines[1] \o <<NL>> \o join(Tail(lines))

(* ------------------------- update_formula ----------------------------- *)

\* A variant of sha_line that keeps a four-space indentation.
sha_line_indent4(value) == <<SP, SP, SP, SP, Sha256Kw, SP, QUOTE>> \o value \o <<QUOTE>>

\* f'      sha256 "{value}"'
sha_line(value) == <<SP, SP, SP, SP, SP, SP, Sha256Kw, SP, QUOTE>> \o value \o <<QUOTE>>

\* lines 12-20: the three literal substitutions
substitute(text, ver) ==
  LET t1 == replace(text, VersionPlaceholder,
                    <<VersionKw>> \o lstrip(ver, {LetterV}) \o <<QUOTE>>)
      t2 == replace(t1, ArmUrlPlaceholder,
                    <<ReleasesDownload>> \o ver \o <<ArmArtifact>> \o ver \o <<TarGz>>)
  IN  replace(t2, IntelUrlPlaceholder,
              <<ReleasesDownload>> \o ver \o <<IntelArtifact>> \o ver \o <<TarGz>>)

\* A variant of lookahead that examines one line more (min(i + 9, ...)).
RECURSIVE lookahead_one_more(_, _, _, _)
lookahead_one_more(lines, j, stop, new) ==
  IF j > stop \/ j > Len(lines) THEN [lines |-> lines, found |-> FALSE]
  ELSE IF startswith(strip(lines[j]), ShaPrefix)
       THEN [lines |-> [lines EXCEPT ![j] = new], found |-> TRUE]
  ELSE lookahead_one_more(lines, j + 1, stop, new)

\* The inner for loops (positions are 1-based here, so Python's
\* range(i + 1, min(i + 8, len(lines))) is j .. stop - 1 with
\* j = i + 1 and stop = min(i + 8, len(lines) + 1)).
RECURSIVE lookahead(_, _, _, _)
lookahead(lines, j, stop, new) ==
  IF j >= stop THEN [lines |-> lines, found |-> FALSE]
  ELSE IF startswith(strip(lines[j]), ShaPrefix)
       THEN [lines |-> [lines EXCEPT ![j] = new], found |-> TRUE]
  ELSE lookahead(lines, j + 1, stop, new)

\* A variant of arm_branch that matches the marker only until a checksum
\* was replaced for it (if not arm_set and ...).
arm_branch_first_only(st, i, line, sha) ==
  IF ~st.arm_set /\ strip(line) = ArmMarker
  THEN LET r == lookahead(st.lines, i + 1, Min(i + ArmWindow, Len(st.lines) + 1), sha_line(sha))
       IN  [st EXCEPT !.lines = r.lines, !.arm_set = st.arm_set \/ r.found]
  ELSE st

\* lines 26-31
arm_branch(st, i, line, sha) ==
  IF strip(line) = ArmMarker
  THEN LET r == lookahead(st.lines, i + 1, Min(i + ArmWindow, Len(st.lines) + 1), sha_line(sha))
       IN  [st EXCEPT !.lines = r.lines, !.arm_set = st.arm_set \/ r.found]
  ELSE st

\* lines 32-37
intel_branch(st, i, line, sha) ==
  IF strip(line) = IntelMarker
  THEN LET r == lookahead(st.lines, i + 1, Min(i + IntelWindow, Len(st.lines) + 1), sha_line(sha))
       IN  [st EXCEPT !.lines = r.lines, !.intel_set = st.intel_set \/ r.found]
  ELSE st

\* lines 25-37: for i, line in enumerate(lines)
RECURSIVE scan_from(_, _, _, _)
scan_from(st, i, sha_arm, sha_intel) ==
  IF i > Len(st.lines) THEN st
  ELSE LET line == st.lines[i]
       IN  scan_from(intel_branch(arm_branch(st, i, line, sha_arm), i, line, sha_intel),
                     i + 1, sha_arm, sha_intel)

scan(lines, sha_arm, sha_intel) ==
  scan_from([lines |-> lines, arm_set |-> FALSE, intel_set |-> FALSE], 1, sha_arm, sha_intel)

\* A variant of joined that ends the file with an empty line.
joined_blank_line(lines) == join(lines) \o <<NL, NL>>

\* line 42: '\n'.join(lines) + '\n'
joined(lines) == join(lines) \o <<NL>>

\* A variant of update_formula that writes the file before the check of
\* arm_set and intel_set.
update_formula_writes_first(d, path, ver, sha_arm, sha_intel) ==
  IF d[path] = Missing THEN [result |-> "io", disk |-> d, lines |-> <<>>]
  ELSE LET lines == splitlines(substitute(d[path], ver))
           st == scan(lines, sha_arm, sha_intel)
       IN  [result |-> IF ~st.arm_set \/ ~st.intel_set THEN "runtime" ELSE "ok",
            disk |-> [d EXCEPT ![path] = joined(st.lines)], lines |-> lines]

\* lines 10-42: the result of one call on the file system d.
\* result is "ok" (returned), "runtime" (RuntimeError, line 40) or
\* "io" (path.read_text() raised, line 11); lines is the value line 22
\* gives to the local variable lines.
update_formula(d, path, ver, sha_arm, sha_intel) ==
  IF d[path] = Missing THEN [result |-> "io", disk |-> d, lines |-> <<>>]
  ELSE LET lines == splitlines(substitute(d[path], ver))
           st == scan(lines, sha_arm, sha_intel)
       IN  IF ~st.arm_set \/ ~st.intel_set
           THEN [result |-> "runtime", disk |-> d, lines |-> lines]
           ELSE [result |-> "ok", disk |-> [d EXCEPT ![path] = joined(st.lines)],
                 lines |-> lines]

\* A variant of next_status that goes on to the next path after a failure.
next_status_keeps_going(result, done, total) ==
  IF done = total THEN (IF result # "ok" THEN "exit1" ELSE "exit0")
  ELSE "running"

\* lines 54-55 and the end of the script: an exception leaves the loop and
\* the interpreter exits non-zero; after the last path the script ends.
next_status(result, done, total) ==
  IF result # "ok" THEN "exit1"
  ELSE IF done = total THEN "exit0"
  ELSE "running"

(* --------------------------- formula files ---------------------------- *)

VersionLine == <<SP, VersionKw, Zero, QUOTE>>
ArmUrlLine == <<SP, UrlKw>> \o ArmUrlPlaceholder \o <<QUOTE>>
IntelUrlLine == <<SP, UrlKw>> \o IntelUrlPlaceholder \o <<QUOTE>>
OldShaLine == <<SP, Sha256Kw, SP, QUOTE, OldHex, QUOTE>>
EndLine == <<EndKw>>
ArmLine == <<SP>> \o ArmMarker
IntelLine == <<SP>> \o IntelMarker \o <<SP>>

Fill(n) == [i \in 1..n |-> EndLine]

Shapes == {"bare", "near", "edge", "far"}
Kinds == {"arm", "intel"}
BlockKinds == Kinds \X Shapes

\* One anchor block: "bare" is the marker alone, "near" has its checksum two
\* lines below the marker, "edge" seven lines below it, "far" eight.
Block(b) ==
  LET anchor == IF b[1] = "arm" THEN ArmLine ELSE IntelLine
      url == IF b[1] = "arm" THEN ArmUrlLine ELSE IntelUrlLine
  IN  CASE b[2] = "bare" -> <<anchor>>
        [] b[2] = "near" -> <<anchor, url, OldShaLine>>
        [] b[2] = "edge" -> <<anchor, url>> \o Fill(5) \o <<OldShaLine>>
        [] b[2] = "far" -> <<anchor, url>> \o Fill(6) \o <<OldShaLine>>

RECURSIVE Blocks(_)
Blocks(bs) == IF bs = <<>> THEN <<>> ELSE Block(Head(bs)) \o Blocks(Tail(bs))

\* What a generated file starts with: nothing, the version declaration, or
\* the layout of the shipped formula (version, on_arm block, on_intel block).
Prefixes == {"none", "version", "shipped"}

Prefix(h) ==
  CASE h = "none" -> <<>>
    [] h = "version" -> <<VersionLine>>
    [] h = "shipped" -> <<VersionLine>> \o Block(<<"arm", "near">>) \o Block(<<"intel", "near">>)

FileText(h, bs, finalBreak) ==
  join(Prefix(h) \o Blocks(bs)) \o (IF finalBreak THEN <<NL>> ELSE <<>>)

SeqsUpTo(n, S) == UNION {[1..m -> S] : m \in 0..n}

\* The formula files a single call is explored on.
Files == {FileText(h, bs, nb) : h \in Prefixes, bs \in SeqsUpTo(MaxBlocks, BlockKinds), nb \in BOOLEAN}

\* The formula files of a run over several paths.
RunFiles == {FileText("version", bs, TRUE) : bs \in [1..2 -> Kinds \X {"near"}]} \cup {Missing}

Versions == {<<LetterV, One>>, <<One>>, <<LetterV, LetterV, One>>, <<Zero, QUOTE, One>>}
ShasArm == {<<HexA>>, <<HexA, NL, HexB>>}
ShasIntel == {<<HexB>>}

(* ----------------------------- the script ----------------------------- *)

\* lines 46-53: the parsed command line; the formula list defaults to
\* DefaultFormulas when no --formula is given.
Parsed(formula) ==
  /\ version \in Versions
  /\ sha_arm64 \in ShasArm
  /\ sha_x86_64 \in ShasIntel
  /\ formulas = (IF formula = <<>> THEN DefaultFormulas ELSE formula)
  /\ calls = <<>>
  /\ status = "running"
  /\ orig = disk

\* One formula file, named twice on the command line.
InitRepeat ==
  /\ \E f \in Files :
       disk = [q \in Paths |-> IF q = DefaultFormulas[2] THEN f ELSE Missing]
  /\ Parsed(<<DefaultFormulas[2], DefaultFormulas[2]>>)

\* Up to MaxFiles paths over two files.
InitRun ==
  /\ disk \in [Paths -> RunFiles]
  /\ \E formula \in SeqsUpTo(MaxFiles, Paths) : Parsed(formula)

Init == InitRepeat \/ InitRun

\* lines 54-55: update_formula(Path(formula), ...) on the next path.  The
\* call is recorded with the file before and after it and with the lines
\* it held in memory after the substitutions.
UpdateFormula ==
  /\ status = "running"
  /\ \E p \in {formulas[Len(calls) + 1]} :
     \E r \in {update_formula(disk, p, version, sha_arm64, sha_x86_64)} :
         /\ disk' = r.disk
         /\ calls' = Append(calls, [path |-> p, result |-> r.result,
                                    before |-> disk[p], after |-> r.disk[p],
                                    lines |-> r.lines])
         /\ status' = next_status(r.result, Len(calls) + 1, Len(formulas))
  /\ UNCHANGED <<orig, formulas, version, sha_arm64, sha_x86_64>>

Next == UpdateFormula

Spec == Init /\ [][Next]_vars

(* ----------------------- vocabulary of the claims ---------------------- *)

NoBreaks(s) == \A i \in DOMAIN s : s[i] # NL

\* No argument holds a line break.
PlainArgs == NoBreaks(version) /\ NoBreaks(sha_arm64) /\ NoBreaks(sha_x86_64)

\* The arguments are words: no line break, no quote, no blank in them.
WordArgs ==
  \A s \in {version, sha_arm64, sha_x86_64} :
    \A i \in DOMAIN s : s[i] \notin Whitespace \cup {QUOTE}

OkCalls == {n \in DOMAIN calls : calls[n].result = "ok"}

\* The latest call, when it returned: every call is the latest one in the
\* state it leads to.
LastOk == {n \in {Len(calls)} : n > 0 /\ calls[n].result = "ok"}
Last == {n \in {Len(calls)} : n > 0}

\* The lines in memory after the placeholder substitutions of call c.
Substituted(c) == c.lines

\* The lines of the file as call c left it.
Written(c) == splitlines(c.after)

IsArm(L, i) == strip(L[i]) = ArmMarker
IsIntel(L, i) == strip(L[i]) = IntelMarker
IsAnchor(L, i) == IsArm(L, i) \/ IsIntel(L, i)
IsChecksum(line) == startswith(strip(line), <<Sha256Kw, SP>>)

\* The checksum line of the anchor at line i: the first one among the
\* seven lines below it, 0 when there is none.
Selected(L, i) ==
  LET W == {j \in (i + 1)..Min(i + 7, Len(L)) : IsChecksum(L[j])}
  IN  IF W = {} THEN 0 ELSE least(W)

ArmTargets(L) == {Selected(L, i) : i \in {a \in DOMAIN L : IsArm(L, a)}} \ {0}
IntelTargets(L) == {Selected(L, i) : i \in {a \in DOMAIN L : IsIntel(L, a)}} \ {0}
Targets(L) == ArmTargets(L) \cup IntelTargets(L)

\* Six spaces, sha256 "<value>"
ChecksumField(value) ==
  <<SP, SP, SP, SP, SP, SP, Sha256Kw, SP, QUOTE>> \o value \o <<QUOTE>>

Supplied == {ChecksumField(sha_arm64), ChecksumField(sha_x86_64)}

\* The number of places where pat occurs in text
Count(text, pat) == Cardinality({j \in DOMAIN text : match_at(text, j, pat)})

\* The supplied version without one leading "v"
WithoutPrefixV(ver) == IF ver # <<>> /\ Head(ver) = LetterV THEN Tail(ver) ELSE ver

UrlOf(artifact, ver) == <<ReleasesDownload>> \o ver \o <<artifact>> \o ver \o <<TarGz>>

DistinctPaths == \A i, j \in DOMAIN formulas : i # j => formulas[i] # formulas[j]

(* -------------------------------- claims ------------------------------- *)
(* A quantifier over a one-element set, \A L \in {e}, names the value of e. *)

\* C1: when update_formula fails -- it raised, or the substituted lines have
\* no on_arm anchor with a checksum line in its window, or no such on_intel
\* anchor -- the call raises and the file on disk is what it was before the
\* call, the substitutions made in memory are not written.
C1_FailureLeavesFileUnwritten ==
  \A n \in Last : \A c \in {calls[n]} :
    c.before # Missing =>
      \A L \in {Substituted(c)} :
        (c.result = "runtime" \/ ArmTargets(L) = {} \/ IntelTargets(L) = {})
          => /\ c.result = "runtime"
             /\ c.after = c.before
             /\ disk[c.path] = c.before

\* A failed call on a file whose substituted text differs from the file.
C1_Witness ==
  \E n \in DOMAIN calls :
    /\ calls[n].result = "runtime"
    /\ substitute(calls[n].before, version) # calls[n].before
    /\ disk[calls[n].path] = calls[n].before

\* C2: after a successful call the checksum line of every on_arm anchor
\* holds the arm64 value and the checksum line of every on_intel anchor the
\* x86_64 value, wherever the markers are.
C2_ChecksumsUnderTheirAnchors ==
  PlainArgs =>
    \A n \in LastOk : \A L \in {Substituted(calls[n])} : \A W \in {Written(calls[n])} :
      \A i \in DOMAIN L : \A j \in {IF IsAnchor(L, i) THEN Selected(L, i) ELSE 0} :
        j # 0 => W[j] = ChecksumField(IF IsArm(L, i) THEN sha_arm64 ELSE sha_x86_64)

\* C3: after a successful call the file holds exactly one version string,
\* one arm64 and one x86_64 download URL and two checksum fields, all of
\* them those of the supplied arguments.
C3_SuccessMeansConsistentFile ==
  \A n \in LastOk : \A text \in {calls[n].after} : \A W \in {Written(calls[n])} :
    \A fields \in {{j \in DOMAIN W : IsChecksum(W[j])}} :
      /\ Count(text, <<VersionKw>> \o lstrip(version, {LetterV}) \o <<QUOTE>>) = 1
      /\ Count(text, UrlOf(ArmArtifact, version)) = 1
      /\ Count(text, UrlOf(IntelArtifact, version)) = 1
      /\ Count(text, <<VersionKw>>) = 1
      /\ Count(text, <<ReleasesDownload>>) = 2
      /\ Cardinality(fields) = 2
      /\ \E a, b \in fields :
           /\ a # b
           /\ W[a] = ChecksumField(sha_arm64)
           /\ W[b] = ChecksumField(sha_x86_64)

C5_SequentialAbortOnFailure ==
  /\ Len(calls) <= Len(formulas)
  /\ \A n \in DOMAIN calls :
       /\ calls[n].path = formulas[n]
       /\ calls[n].result # "ok" => (n = Len(calls) /\ status = "exit1")
  /\ status = "exit1" => (calls # <<>> /\ calls[Len(calls)].result # "ok")
  /\ status = "exit0" <=> (Len(calls) = Len(formulas) /\ OkCalls = DOMAIN calls)
  /\ status = "running" => Len(calls) < Len(formulas)
  /\ \A q \in Paths :
       (\A n \in DOMAIN calls : calls[n].path # q) => disk[q] = orig[q]

\* A run that failed on its second path with a third one left.
C5_Witness ==
  /\ status = "exit1"
  /\ Len(calls) = 2
  /\ calls[1].result = "ok"
  /\ Len(formulas) = 3

\* C6: the version declaration of the written file holds the supplied
\* version without its leading "v", and the download URLs hold the supplied
\* version as it is.
C6_VersionFieldDropsOneLeadingV ==
  PlainArgs =>
    \A n \in LastOk : \A L0 \in {splitlines(calls[n].before)} : \A W \in {Written(calls[n])} :
      \A i \in DOMAIN L0 :
        /\ L0[i] = VersionLine
             => W[i] = <<SP, VersionKw>> \o WithoutPrefixV(version) \o <<QUOTE>>
        /\ L0[i] = ArmUrlLine
             => W[i] = <<SP, UrlKw>> \o UrlOf(ArmArtifact, version) \o <<QUOTE>>
        /\ L0[i] = IntelUrlLine
             => W[i] = <<SP, UrlKw>> \o UrlOf(IntelArtifact, version) \o <<QUOTE>>

\* C7 as stated: the checksum line of a later occurrence of a marker is
\* left as it was (unless the first occurrence of a marker selects it too).
C7_OnlyFirstOccurrenceMatched ==
  PlainArgs =>
    \A n \in LastOk : \A L \in {Substituted(calls[n])} : \A W \in {Written(calls[n])} :
      \A arms \in {{a \in DOMAIN L : IsArm(L, a)}} :
        \A intels \in {{a \in DOMAIN L : IsIntel(L, a)}} :
          \A firsts \in {{Selected(L, least(S)) : S \in {arms, intels} \ {{}}}} :
            \A i \in arms \cup intels : \A j \in {Selected(L, i)} :
              (j # 0 /\ j \notin firsts) => W[j] = L[j]

\* C7 amended: a marker is matched at every occurrence; the checksum line
\* of each occurrence is replaced, and it ends with the value of the last
\* anchor that selects it.
C7_EveryOccurrenceMatched ==
  PlainArgs =>
    \A n \in LastOk : \A L \in {Substituted(calls[n])} : \A W \in {Written(calls[n])} :
      \A sel \in {[i \in DOMAIN L |-> IF IsAnchor(L, i) THEN Selected(L, i) ELSE 0]} :
        \A i \in DOMAIN L :
          sel[i] # 0 =>
            \E a \in DOMAIN L :
              /\ sel[a] = sel[i]
              /\ \A b \in DOMAIN L : sel[b] = sel[i] => b <= a
              /\ W[sel[i]] = ChecksumField(IF IsArm(L, a) THEN sha_arm64 ELSE sha_x86_64)

\* Two on_arm anchors with different checksum lines, both replaced.
C7_Witness ==
  /\ PlainArgs
  /\ \E n \in LastOk : \E L \in {Substituted(calls[n])} : \E W \in {Written(calls[n])} :
       \E a, b \in {i \in DOMAIN L : IsArm(L, i)} :
         /\ a < b
         /\ Selected(L, a) # 0 /\ Selected(L, b) # 0
         /\ Selected(L, a) # Selected(L, b)
         /\ W[Selected(L, a)] = ChecksumField(sha_arm64)
         /\ W[Selected(L, b)] = ChecksumField(sha_arm64)
         /\ L[Selected(L, b)] # W[Selected(L, b)]

\* C8: an anchor at line i finds the first checksum line among lines
\* i+1 .. min(i+7, last); the call succeeds exactly when some on_arm and some
\* on_intel anchor find one; a checksum line no anchor finds this way, eight
\* or more lines below its anchor or not, is not replaced.
C8_LookaheadWindow ==
  \A n \in Last : \A c \in {calls[n]} :
    c.before # Missing =>
      \A L \in {Substituted(c)} : \A W \in {Written(c)} :
        \A arm \in {ArmTargets(L)} : \A intel \in {IntelTargets(L)} :
          /\ c.result = "ok" <=> (arm # {} /\ intel # {})
          /\ (c.result = "ok" /\ PlainArgs) =>
               \A j \in DOMAIN L :
                 /\ j \in arm \cup intel => (W[j] \in Supplied /\ IsChecksum(L[j]))
                 /\ (IsChecksum(L[j]) /\ j \notin arm \cup intel) => W[j] = L[j]

\* A successful call on a file with a checksum line eight lines below an
\* anchor, left as it was, and one seven lines below an anchor, replaced.
C8_Witness ==
  /\ PlainArgs
  /\ \E n \in LastOk : \E L \in {Substituted(calls[n])} : \E W \in {Written(calls[n])} :
       /\ \E i \in DOMAIN L :
            /\ IsAnchor(L, i) /\ Selected(L, i) = 0
            /\ i + 8 <= Len(L) /\ IsChecksum(L[i + 8]) /\ W[i + 8] = L[i + 8]
       /\ \E i \in DOMAIN L :
            /\ IsAnchor(L, i) /\ Selected(L, i) = i + 7 /\ W[i + 7] \in Supplied

\* C9: with arguments without line breaks a successful call writes as many
\* lines as the substituted text has, changes no line but the selected
\* checksum lines, changes no anchor line, and every selected line is six
\* spaces and sha256 "<value>" with one of the two supplied values.
C9_ScanFrame ==
  PlainArgs =>
    \A n \in LastOk : \A L \in {Substituted(calls[n])} : \A W \in {Written(calls[n])} :
      \A T \in {Targets(L)} :
        /\ Len(W) = Len(L)
        /\ \A j \in DOMAIN L :
             /\ j \notin T => W[j] = L[j]
             /\ IsAnchor(L, j) => W[j] = L[j]
             /\ j \in T => W[j] \in Supplied

\* A successful call that replaced a line and kept a substituted one.
C9_Witness ==
  /\ PlainArgs
  /\ \E n \in LastOk : \E L \in {Substituted(calls[n])} : \E W \in {Written(calls[n])} :
       \E T \in {Targets(L)} : \E L0 \in {splitlines(calls[n].before)} :
         /\ \E j \in DOMAIN L : j \in T /\ W[j] # L[j]
         /\ \E j \in DOMAIN L : j \notin T /\ W[j] = L[j] /\ L[j] # L0[j]

\* C10 as stated: after a failure on the k-th path the files at positions
\* 1..k-1 hold their updated content and the files at positions k.. their
\* original content.
C10_MixedStateAfterFailure ==
  status = "exit1" =>
    \A pos \in DOMAIN formulas :
      IF pos < Len(calls)
      THEN /\ calls[pos].result = "ok"
           /\ calls[pos].before = orig[formulas[pos]]
           /\ disk[formulas[pos]] = calls[pos].after
      ELSE disk[formulas[pos]] = orig[formulas[pos]]

\* C10 amended: the same, when no path occurs twice in the list.
C10_MixedStateDistinctPaths == DistinctPaths => C10_MixedStateAfterFailure

\* A failed run that left the first file updated and the second one as it was.
C10_Witness ==
  /\ status = "exit1"
  /\ DistinctPaths
  /\ Len(calls) = 2
  /\ disk[formulas[1]] # orig[formulas[1]]
  /\ orig[formulas[2]] # Missing
  /\ disk[formulas[2]] = orig[formulas[2]]

====
